---- MODULE Spec2Model ----
(***************************************************************************)
(* Model of the three command-line utilities of development-tools:        *)
(*   create-gitlab-projects/gitlab.py   (markdown parser, hierarchy walk)  *)
(*   init-github-cicd/set-secrets.py    (secrets provisioner)              *)
(*   clone-all-gitlab-projects/fetch_repos.py (repository lister)          *)
(* Text is modelled as a sequence of one-character strings.                *)
(***************************************************************************)
EXTENDS Integers, Sequences, FiniteSets, TLC

VARIABLES
    content,          \* gitlab.py main: the text read from --file
    structure,        \* gitlab.py main: the value returned by MarkdownParser.parse
    dry_run,          \* args.dry_run
    parent_group_id,  \* args.parent_group_id (None when not given)
    pc,               \* position of main()
    frames,           \* call stack of create_structure: <<[items, idx, parent_id]>>
    calls,            \* network calls issued so far, in order
    printed,          \* "[DRY RUN] Would create ..." lines, in order
    status,           \* per node: outcome of its _create_group/_create_project
    group_id,         \* per node: value returned by _create_group
    lastSearch,       \* response of the most recent search_groups call
    exit_code,        \* value returned by main() / passed to sys.exit
    repo_url,         \* set-secrets.py main: sys.argv[1]
    repo_info,        \* the pair extract_repo_info returned
    public_key,       \* whether key_info['key'] is a usable public key
    secrets,          \* the dict get_secret_values returned, in insertion order
    created,          \* one entry per create_secret call made by the upload loop
    success_count,    \* main's success_count
    page,             \* fetch_repos.py get_all_repositories: page
    repos             \* get_all_repositories: repos, a list of pairs

\* variables of gitlab.py alone, of set-secrets.py alone, and those both use
creatorVars == <<content, structure, dry_run, parent_group_id, frames, status,
                 group_id, lastSearch>>
secretsVars == <<repo_url, repo_info, public_key, secrets, created,
                 success_count>>
listerVars == <<page, repos>>
sharedVars == <<pc, calls, printed, exit_code>>
notCreator == <<secretsVars, listerVars>>
notSecrets == <<creatorVars, listerVars>>
notLister == <<creatorVars, secretsVars>>

vars == <<creatorVars, secretsVars, listerVars, sharedVars>>

\* Python's None where an Optional[int] is expected (ids are positive)
None == -1

(***************************************************************************)
(* Bounds                                                                  *)
(***************************************************************************)
MaxLines == 3        \* lines of a markdown text given to the parser alone
MaxIndent == 4       \* widest indentation of a list line
MaxWalkLines == 3    \* lines of a markdown text given to the whole of main()
MaxId == 2           \* ids the platform hands out: 1..MaxId

(***************************************************************************)
(* Characters and Python's str helpers                                     *)
(***************************************************************************)
NL == "\n"
BT == "bt"           \* stands for the backtick character

IsSpace(c) == c \in {" ", "\t", NL}

RECURSIVE LeadingSpaces(_)
LeadingSpaces(s) ==
    IF s = <<>> \/ ~IsSpace(Head(s)) THEN 0 ELSE 1 + LeadingSpaces(Tail(s))

RECURSIVE TrailingSpaces(_)
TrailingSpaces(s) ==
    IF s = <<>> \/ ~IsSpace(s[Len(s)]) THEN 0
    ELSE 1 + TrailingSpaces(SubSeq(s, 1, Len(s) - 1))

\* str.strip()
Strip(s) ==
    IF LeadingSpaces(s) = Len(s) THEN <<>>
    ELSE SubSeq(s, LeadingSpaces(s) + 1, Len(s) - TrailingSpaces(s))

\* str.split('\n'): always at least one (possibly empty) piece
RECURSIVE SplitNL(_, _)
SplitNL(s, cur) ==
    IF s = <<>> THEN <<cur>>
    ELSE IF Head(s) = NL THEN <<cur>> \o SplitNL(Tail(s), <<>>)
    ELSE SplitNL(Tail(s), Append(cur, Head(s)))

Split(s) == SplitNL(s, <<>>)

\* str.startswith(p)
StartsWith(s, p) == Len(s) >= Len(p) /\ SubSeq(s, 1, Len(p)) = p

Fence == <<BT, BT, BT>>

(***************************************************************************)
(* MarkdownParser.parse                                                    *)
(***************************************************************************)
\* re.match(r'^(\s*)-\s+(.+)$', line): group(1) is the whole leading run of
\* whitespace, then '-', then at least one whitespace, then at least one
\* more character.
LineMatches(line) ==
    LET k == LeadingSpaces(line) IN
        /\ Len(line) >= k + 3
        /\ line[k + 1] = "-"
        /\ IsSpace(line[k + 2])

\* len(indent_match.group(1))
IndentOf(line) == LeadingSpaces(line)

\* indent_match.group(2).strip(): \s+ is greedy but gives a character back
\* when nothing would be left for (.+)
NameOf(line) ==
    LET k == LeadingSpaces(line)
        rest == SubSeq(line, k + 2, Len(line))
        w == LeadingSpaces(rest)
        g2 == IF w < Len(rest) THEN SubSeq(rest, w + 1, Len(rest))
              ELSE <<rest[Len(rest)]>>
    IN Strip(g2)

\* level = indent // 2
LevelOf(line) == IndentOf(line) \div 2

\* the lines the loop skips: blank, fence, or not matching the pattern
IsSkipped(line) ==
    \/ Strip(line) = <<>>
    \/ StartsWith(Strip(line), Fence)
    \/ ~LineMatches(line)

\* while stack and stack[-1]['level'] >= level: stack.pop()
RECURSIVE PopStack(_, _, _)
PopStack(stack, items, level) ==
    IF stack # <<>> /\ items[stack[Len(stack)]].level >= level
    THEN PopStack(SubSeq(stack, 1, Len(stack) - 1), items, level)
    ELSE stack

\* One iteration of the for loop.  The parser state is
\*   items     : the item dicts, by creation order (an item is named by its index)
\*   structure : self.structure, the indexes of the root items
\*   stack     : indexes of the open ancestors
\* items[i].children holds indexes: the dicts are shared by reference.
ParseLine(st, line) ==
    IF IsSkipped(line) THEN st
    ELSE
        LET level == LevelOf(line)
            id == Len(st.items) + 1
            item == [name |-> NameOf(line), level |-> level, children |-> <<>>]
            stack == PopStack(st.stack, st.items, level)
            items1 == Append(st.items, item)
        IN IF stack # <<>>
           THEN [items |-> [items1 EXCEPT ![stack[Len(stack)]].children =
                                Append(@, id)],
                 structure |-> st.structure,
                 stack |-> Append(stack, id)]
           ELSE [items |-> items1,
                 structure |-> Append(st.structure, id),
                 stack |-> Append(stack, id)]

RECURSIVE ParseLines(_, _)
ParseLines(st, lines) ==
    IF lines = <<>> THEN st
    ELSE ParseLines(ParseLine(st, Head(lines)), Tail(lines))

\* lines = self.content.strip().split('\n')
ContentLines(text) == Split(Strip(text))

\* MarkdownParser(content).parse(): the root list and the items it reaches
Parse(text) ==
    LET st == ParseLines([items |-> <<>>, structure |-> <<>>, stack |-> <<>>],
                         ContentLines(text))
    IN [items |-> st.items, structure |-> st.structure]

(***************************************************************************)
(* Input texts                                                             *)
(***************************************************************************)
RECURSIVE Spaces(_)
Spaces(n) == IF n = 0 THEN <<>> ELSE <<" ">> \o Spaces(n - 1)

ItemLine(n, name) == Spaces(n) \o <<"-", " ">> \o name

\* list lines at every indentation, and the lines the parser ignores
ListLines == {ItemLine(n, <<"a">>) : n \in 0..MaxIndent}
IgnoredLines == {<<>>, Fence, <<"x">>, <<" ", " ", "-", "a">>}
AllLines == ListLines \cup IgnoredLines

RECURSIVE JoinLines(_)
JoinLines(ls) ==
    IF ls = <<>> THEN <<>>
    ELSE IF Len(ls) = 1 THEN ls[1]
    ELSE ls[1] \o <<NL>> \o JoinLines(Tail(ls))

SeqsUpTo(S, n) == UNION {[1..k -> S] : k \in 0..n}

ParserTexts == {JoinLines(ls) : ls \in SeqsUpTo(AllLines, MaxLines)}

\* the texts main() is run on: outlines that start with an unindented line
\* and indent by whole levels
WalkLines == {ItemLine(0, <<"a">>), ItemLine(2, <<"B", "_", "c">>),
              ItemLine(4, <<"a">>)}
WalkTexts ==
    {JoinLines(ls) : ls \in {l \in SeqsUpTo(WalkLines, MaxWalkLines) :
                                l = <<>> \/ l[1] = ItemLine(0, <<"a">>)}}

Ids == 1..MaxId
\* --parent-group-id: absent, or the id of an existing group
ConfiguredParents == {None, 1}

(***************************************************************************)
(* GitLabStructureCreator                                                  *)
(***************************************************************************)
Lower(c) == IF c = "A" THEN "a" ELSE IF c = "B" THEN "b" ELSE c

\* name.lower().replace(' ', '-').replace('_', '-')
Slug(name) ==
    [i \in 1..Len(name) |->
        IF Lower(name[i]) \in {" ", "_"} THEN "-" ELSE Lower(name[i])]

Items == structure.items
Top == frames[Len(frames)]
\* the item the for loop of the innermost create_structure call is at
CurItem == Top.items[Top.idx]
AtItem == pc = "walk" /\ frames # <<>> /\ Top.idx <= Len(Top.items)
\* is_repo = len(item['children']) == 0
IsRepo(n) == Len(Items[n].children) = 0

\* the dry-run test left out of _create_group and _create_project
LiveAlways == TRUE

\* "if self.dry_run: print(...); return" is not taken: the call is issued
Live == ~dry_run

\* Python truthiness of an Optional[int]
Truthy(v) == v # None /\ v # 0

\* the loop moves to the next item of the current call
Advance == [frames EXCEPT ![Len(frames)].idx = @ + 1]

\* the recursive call handed parent_id instead of group_id
RecurseWrongParent(n, gid) ==
    IF Len(Items[n].children) > 0 /\ Truthy(gid)
    THEN Append(Advance, [items |-> Items[n].children, idx |-> 1,
                          parent_id |-> Top.parent_id])
    ELSE Advance

\* the recursion made without testing group_id
RecurseAlways(n, gid) ==
    IF Len(Items[n].children) > 0
    THEN Append(Advance, [items |-> Items[n].children, idx |-> 1,
                          parent_id |-> gid])
    ELSE Advance

\* if item['children'] and group_id: self.create_structure(children, group_id, ..)
Recurse(n, gid) ==
    IF Len(Items[n].children) > 0 /\ Truthy(gid)
    THEN Append(Advance, [items |-> Items[n].children, idx |-> 1,
                          parent_id |-> gid])
    ELSE Advance

\* an exception leaves create_structure and reaches main's except clause
Fatal ==
    /\ pc' = "done"
    /\ exit_code' = 1
    /\ frames' = <<>>

\* GitLabAPI.search_groups: the platform's answer, filtered by parent
SearchGroups(resp, parent_id) ==
    IF parent_id # None
    THEN SelectSeq(resp, LAMBDA g : g.parent_id = parent_id)
    ELSE resp

\* the existing group accepted on its path alone
GroupMatchesPathOnly(g, path, parent_id) == g.path = path

\* for g in groups: if g['path'] == path and g.get('parent_id') == parent_id
GroupMatches(g, path, parent_id) == g.path = path /\ g.parent_id = parent_id

RECURSIVE FirstMatch(_, _, _)
FirstMatch(groups, path, parent_id) ==
    IF groups = <<>> THEN None
    ELSE IF GroupMatches(Head(groups), path, parent_id) THEN Head(groups).id
    ELSE FirstMatch(Tail(groups), path, parent_id)

\* the value _create_group returns after an 'already taken' answer
ResolveConflict(resp, name, parent_id) ==
    FirstMatch(SearchGroups(resp, parent_id), Slug(name), parent_id)

\* what the platform may answer to a group search: up to two groups with
\* distinct ids, each with the path and parent asked for or another one
ResponseLengths == {0, 1, 2}
OtherParent(parent_id) == IF parent_id = None THEN 1 ELSE None
FoundGroups(name, parent_id) ==
    [id : Ids, path : {Slug(name), <<"z">>},
     parent_id : {parent_id, OtherParent(parent_id)}]
SearchResponses(name, parent_id) ==
    {r \in UNION {[1..k -> FoundGroups(name, parent_id)] : k \in ResponseLengths} :
        \A i, j \in 1..Len(r) : i # j => r[i].id # r[j].id}

CreateCall(op, n, parent_id) == [op |-> op, node |-> n, parent_id |-> parent_id]

(***************************************************************************)
(* main() of gitlab.py                                                     *)
(***************************************************************************)
\* content = f.read(); structure = MarkdownParser(content).parse()
ReadAndParse ==
    /\ pc = "start"
    /\ structure' = Parse(content)
    /\ pc' = "parsed"
    /\ status' = [n \in 1..Len(structure'.items) |-> "pending"]
    /\ group_id' = [n \in 1..Len(structure'.items) |-> None]
    /\ UNCHANGED notCreator
    /\ UNCHANGED <<content, dry_run, parent_group_id, frames, calls, printed,
                   lastSearch, exit_code>>

\* if not structure: return 1
NoStructure ==
    /\ pc = "parsed"
    /\ structure.structure = <<>>
    /\ pc' = "done"
    /\ exit_code' = 1
    /\ UNCHANGED notCreator
    /\ UNCHANGED <<content, structure, dry_run, parent_group_id, frames, calls,
                   printed, status, group_id, lastSearch>>

HasStructure ==
    /\ pc = "parsed"
    /\ structure.structure # <<>>
    /\ pc' = "construct"
    /\ UNCHANGED notCreator
    /\ UNCHANGED <<content, structure, dry_run, parent_group_id, frames, calls,
                   printed, status, group_id, lastSearch, exit_code>>

\* create_structure(structure): parent_id None becomes self.parent_group_id
EnterWalk ==
    /\ pc' = "walk"
    /\ frames' = <<[items |-> structure.structure, idx |-> 1,
                    parent_id |-> parent_group_id]>>

\* GitLabStructureCreator.__init__ with dry_run set
ConstructDryRun ==
    /\ pc = "construct"
    /\ dry_run
    /\ EnterWalk
    /\ UNCHANGED notCreator
    /\ UNCHANGED <<content, structure, dry_run, parent_group_id, calls,
                   printed, status, group_id, lastSearch, exit_code>>

\* __init__: get_current_user succeeds
ConstructAuthOk ==
    /\ pc = "construct"
    /\ ~dry_run
    /\ calls' = Append(calls, [op |-> "get_current_user"])
    /\ EnterWalk
    /\ UNCHANGED notCreator
    /\ UNCHANGED <<content, structure, dry_run, parent_group_id, printed,
                   status, group_id, lastSearch, exit_code>>

\* __init__: get_current_user raises, __init__ re-raises, main returns 1
ConstructAuthFails ==
    /\ pc = "construct"
    /\ ~dry_run
    /\ calls' = Append(calls, [op |-> "get_current_user"])
    /\ Fatal
    /\ UNCHANGED notCreator
    /\ UNCHANGED <<content, structure, dry_run, parent_group_id, printed,
                   status, group_id, lastSearch>>

(***************************************************************************)
(* create_structure: one action per way an item of the loop is handled     *)
(***************************************************************************)
walkConfig == <<content, structure, dry_run, parent_group_id>>

\* _create_project in dry-run mode: print and return
DryRunProject ==
    /\ AtItem /\ ~Live /\ IsRepo(CurItem)
    /\ printed' = Append(printed, [kind |-> "PROJECT", node |-> CurItem,
                                   parent_id |-> Top.parent_id])
    /\ frames' = Advance
    /\ status' = [status EXCEPT ![CurItem] = "printed"]
    /\ UNCHANGED notCreator
    /\ UNCHANGED <<walkConfig, pc, calls, group_id, lastSearch, exit_code>>

\* _create_group in dry-run mode: print and return None
DryRunGroup ==
    /\ AtItem /\ ~Live /\ ~IsRepo(CurItem)
    /\ printed' = Append(printed, [kind |-> "GROUP", node |-> CurItem,
                                   parent_id |-> Top.parent_id])
    /\ group_id' = [group_id EXCEPT ![CurItem] = None]
    /\ frames' = Recurse(CurItem, None)
    /\ status' = [status EXCEPT ![CurItem] = "printed"]
    /\ UNCHANGED notCreator
    /\ UNCHANGED <<walkConfig, pc, calls, lastSearch, exit_code>>

\* _create_project: the create call returns the new project
CreateProjectOk ==
    /\ AtItem /\ Live /\ IsRepo(CurItem)
    /\ calls' = Append(calls, CreateCall("create_project", CurItem, Top.parent_id))
    /\ status' = [status EXCEPT ![CurItem] = "created"]
    /\ frames' = Advance
    /\ lastSearch' = <<>>
    /\ UNCHANGED notCreator
    /\ UNCHANGED <<walkConfig, pc, printed, group_id, exit_code>>

\* _create_project: raise_for_status raises HTTPError; every branch of the
\* handler prints and returns
HTTPErrors == {"taken", "bad_request", "client_error", "server_error"}
CreateProjectHTTPError ==
    /\ AtItem /\ Live /\ IsRepo(CurItem)
    /\ \E e \in HTTPErrors :
           status' = [status EXCEPT ![CurItem] = e]
    /\ calls' = Append(calls, CreateCall("create_project", CurItem, Top.parent_id))
    /\ frames' = Advance
    /\ lastSearch' = <<>>
    /\ UNCHANGED notCreator
    /\ UNCHANGED <<walkConfig, pc, printed, group_id, exit_code>>

\* the create call raises something other than HTTPError (ConnectionError,
\* Timeout), or the 400 body is not JSON: nothing in _create_project or
\* create_structure catches it
Uncaught == {"network", "bad_body"}
CreateProjectRaises ==
    /\ AtItem /\ Live /\ IsRepo(CurItem)
    /\ \E e \in Uncaught :
           status' = [status EXCEPT ![CurItem] = e]
    /\ calls' = Append(calls, CreateCall("create_project", CurItem, Top.parent_id))
    /\ Fatal
    /\ lastSearch' = <<>>
    /\ UNCHANGED notCreator
    /\ UNCHANGED <<walkConfig, printed, group_id>>

\* _create_group: the create call returns the new group; recurse with its id
CreateGroupOk ==
    /\ AtItem /\ Live /\ ~IsRepo(CurItem)
    /\ \E id \in Ids :
        /\ group_id' = [group_id EXCEPT ![CurItem] = id]
        /\ frames' = Recurse(CurItem, id)
    /\ calls' = Append(calls, CreateCall("create_group", CurItem, Top.parent_id))
    /\ status' = [status EXCEPT ![CurItem] = "created"]
    /\ lastSearch' = <<>>
    /\ UNCHANGED notCreator
    /\ UNCHANGED <<walkConfig, pc, printed, exit_code>>

\* _create_group: 400 'has already been taken'; search_groups answers and the
\* first group with the same path and parent, if any, is used
CreateGroupTaken ==
    /\ AtItem /\ Live /\ ~IsRepo(CurItem)
    /\ \E resp \in SearchResponses(Items[CurItem].name, Top.parent_id) :
        LET gid == ResolveConflict(resp, Items[CurItem].name, Top.parent_id) IN
        /\ lastSearch' = <<[node |-> CurItem, resp |-> resp]>>
        /\ group_id' = [group_id EXCEPT ![CurItem] = gid]
        /\ status' = [status EXCEPT ![CurItem] =
                          IF gid # None THEN "reused" ELSE "taken"]
        /\ frames' = Recurse(CurItem, gid)
    /\ calls' = calls \o <<CreateCall("create_group", CurItem, Top.parent_id),
                           CreateCall("search_groups", CurItem, Top.parent_id)>>
    /\ UNCHANGED notCreator
    /\ UNCHANGED <<walkConfig, pc, printed, exit_code>>

\* _create_group: 400 'has already been taken' and search_groups raises;
\* 'except Exception' prints and None is returned
CreateGroupTakenSearchFails ==
    /\ AtItem /\ Live /\ ~IsRepo(CurItem)
    /\ calls' = calls \o <<CreateCall("create_group", CurItem, Top.parent_id),
                           CreateCall("search_groups", CurItem, Top.parent_id)>>
    /\ group_id' = [group_id EXCEPT ![CurItem] = None]
    /\ status' = [status EXCEPT ![CurItem] = "search_failed"]
    /\ frames' = Recurse(CurItem, None)
    /\ lastSearch' = <<>>
    /\ UNCHANGED notCreator
    /\ UNCHANGED <<walkConfig, pc, printed, exit_code>>

\* _create_group: any other HTTPError; print and return None
CreateGroupHTTPError ==
    /\ AtItem /\ Live /\ ~IsRepo(CurItem)
    /\ \E e \in HTTPErrors \ {"taken"} :
           status' = [status EXCEPT ![CurItem] = e]
    /\ calls' = Append(calls, CreateCall("create_group", CurItem, Top.parent_id))
    /\ group_id' = [group_id EXCEPT ![CurItem] = None]
    /\ frames' = Recurse(CurItem, None)
    /\ lastSearch' = <<>>
    /\ UNCHANGED notCreator
    /\ UNCHANGED <<walkConfig, pc, printed, exit_code>>

\* _create_group: the create call raises something other than HTTPError
CreateGroupRaises ==
    /\ AtItem /\ Live /\ ~IsRepo(CurItem)
    /\ \E e \in Uncaught :
           status' = [status EXCEPT ![CurItem] = e]
    /\ calls' = Append(calls, CreateCall("create_group", CurItem, Top.parent_id))
    /\ Fatal
    /\ lastSearch' = <<>>
    /\ UNCHANGED notCreator
    /\ UNCHANGED <<walkConfig, printed, group_id>>

\* the for loop of a nested create_structure call ends: return to the caller
ReturnFromChildren ==
    /\ pc = "walk" /\ Len(frames) > 1 /\ Top.idx > Len(Top.items)
    /\ frames' = SubSeq(frames, 1, Len(frames) - 1)
    /\ UNCHANGED notCreator
    /\ UNCHANGED <<walkConfig, pc, calls, printed, status, group_id,
                   lastSearch, exit_code>>

\* the outermost create_structure returns: print "Completed!", return 0
Completed ==
    /\ pc = "walk" /\ Len(frames) = 1 /\ Top.idx > Len(Top.items)
    /\ frames' = <<>>
    /\ pc' = "done"
    /\ exit_code' = 0
    /\ UNCHANGED notCreator
    /\ UNCHANGED <<walkConfig, calls, printed, status, group_id, lastSearch>>

(***************************************************************************)
(* set-secrets.py: extract_repo_info                                       *)
(***************************************************************************)
\* the longest run of characters other than '/' at the head of s
RECURSIVE RunNoSlash(_)
RunNoSlash(s) ==
    IF s = <<>> \/ Head(s) = "/" THEN 0 ELSE 1 + RunNoSlash(Tail(s))

DotGit == <<".", "g", "i", "t">>

\* (?:\.git)?/?$ : what may follow the repository name
IsTail(s) == s \in {<<>>, <<"/">>, DotGit, DotGit \o <<"/">>}

\* ([^/]+?)(?:\.git)?/?$ on s: the lengths the lazy group may take
RepoLens(s) ==
    {n \in 1..Len(s) : n <= RunNoSlash(s) /\ IsTail(SubSeq(s, n + 1, Len(s)))}

Min(S) == CHOOSE x \in S : \A y \in S : x <= y

\* the pattern  <literal>[<seps>]([^/]+)/([^/]+?)(?:\.git)?/?$  tried at
\* position i of url: the greedy first group takes the whole run up to the
\* next '/', the lazy second group the shortest name that lets the rest match
MatchAt(url, i, literal, seps) ==
    LET n == Len(literal)
        after == SubSeq(url, i + n + 1, Len(url))
        o == RunNoSlash(after)
        rest == SubSeq(after, o + 2, Len(after))
    IN IF /\ i + n <= Len(url)
          /\ SubSeq(url, i, i + n - 1) = literal
          /\ url[i + n] \in seps
          /\ o >= 1
          /\ o < Len(after)
          /\ RepoLens(rest) # {}
       THEN [found |-> TRUE, group1 |-> SubSeq(after, 1, o),
             group2 |-> SubSeq(rest, 1, Min(RepoLens(rest)))]
       ELSE [found |-> FALSE, group1 |-> <<>>, group2 |-> <<>>]

\* re.search(pattern, repo_url): the leftmost position that matches
ReSearch(url, literal, seps) ==
    LET starts == {i \in 1..Len(url) : MatchAt(url, i, literal, seps).found}
    IN IF starts = {} THEN [found |-> FALSE, group1 |-> <<>>, group2 |-> <<>>]
       ELSE MatchAt(url, Min(starts), literal, seps)

GithubCom == <<"g", "i", "t", "h", "u", "b", ".", "c", "o", "m">>
HttpsGithubCom == <<"h", "t", "t", "p", "s", ":", "/", "/">> \o GithubCom

\* str.rstrip(chars): drop trailing characters that are in the set chars
RECURSIVE RStrip(_, _)
RStrip(s, chars) ==
    IF s # <<>> /\ s[Len(s)] \in chars
    THEN RStrip(SubSeq(s, 1, Len(s) - 1), chars)
    ELSE s

\* repo = match.group(2).rstrip('.git')
RepoOf(group2) == RStrip(group2, {".", "g", "i", "t"})

\* extract_repo_info(repo_url); found = FALSE stands for (None, None)
NoRepoInfo == [found |-> FALSE, owner |-> <<>>, repo |-> <<>>]
extract_repo_info(url) ==
    LET m1 == ReSearch(url, GithubCom, {":", "/"})
        m2 == ReSearch(url, HttpsGithubCom, {"/"})
    IN IF m1.found
       THEN [found |-> TRUE, owner |-> m1.group1, repo |-> RepoOf(m1.group2)]
       ELSE IF m2.found
       THEN [found |-> TRUE, owner |-> m2.group1, repo |-> RepoOf(m2.group2)]
       ELSE NoRepoInfo

(***************************************************************************)
(* set-secrets.py: inputs                                                  *)
(***************************************************************************)
MaxNameLen == 2      \* length of the generated owner and repository names

SshPrefix == <<"g", "i", "t", "@">> \o GithubCom \o <<":">>
HttpsPrefix == HttpsGithubCom \o <<"/">>
\* prefixes of neither documented shape
OtherPrefixes ==
    {<<"h", "t", "t", "p", "s", ":", "/", "/", "g", "i", "t", "l", "a", "b",
       ".", "c", "o", "m", "/">>,
     <<"h", "t", "t", "p", "s", ":", "/", "/", "m", "y">> \o GithubCom \o <<"/">>}

Acme == <<"a", "c", "m", "e">>
Widget == <<"w", "i", "d", "g", "e", "t">>
Names == {Acme, Widget}
             \cup UNION {[1..k -> {"a", "t"}] : k \in 1..MaxNameLen}

MakeUrl(prefix, owner, repo, suffix) == prefix \o owner \o <<"/">> \o repo \o suffix

RepoUrls ==
    {MakeUrl(p, o, r, x) : p \in {SshPrefix, HttpsPrefix} \cup OtherPrefixes,
                           o \in Names, r \in Names, x \in {<<>>, DotGit}}

\* the URLs full runs of the provisioner are started on
SecretsUrls ==
    {MakeUrl(SshPrefix, Acme, Widget, DotGit),
     MakeUrl(HttpsPrefix, Acme, <<"a">>, <<>>),
     MakeUrl(HttpsPrefix, Acme, <<"t">>, <<>>)}

SecretNames == <<"PRIVATE_KEY", "SERVER_ADDRESS", "SERVER_USERNAME", "SERVER_PATH">>

\* what the operator may type at a prompt: nothing, a blank, a value, and a
\* value str.encode('utf-8') rejects (a lone surrogate)
Typed == {<<>>, <<" ">>, <<"v">>, <<"surrogate">>}

\* get_secret_values: getpass for the first, input().strip() for the others
get_secret_values(typed) ==
    [i \in 1..Len(SecretNames) |-> IF i = 1 THEN typed[i] ELSE Strip(typed[i])]

\* empty_secrets = [name for name, value in secrets.items() if not value.strip()]
empty_secrets(values) ==
    SelectSeq([i \in 1..Len(values) |-> i], LAMBDA i : Strip(values[i]) = <<>>)

\* encrypt_secret returns a ciphertext unless b64decode, PublicKey or
\* secret_value.encode raise
encrypt_secret(key, value) == key = "usable" /\ value # <<"surrogate">>

\* only "created" taken for success
PutSucceededCreatedOnly(code) == code = 201

\* if response.status_code in [201, 204]
PutSucceeded(code) == code \in {201, 204}

(***************************************************************************)
(* set-secrets.py: main()                                                  *)
(***************************************************************************)
Exit1 ==
    /\ pc' = "s_done"
    /\ exit_code' = 1

\* if len(sys.argv) != 3: print usage; sys.exit(1)
BadArgumentCount ==
    /\ pc = "s_start"
    /\ Exit1
    /\ UNCHANGED <<repo_url, repo_info, public_key, secrets, created,
                   success_count, calls, printed>>
    /\ UNCHANGED notSecrets

\* owner, repo = extract_repo_info(repo_url); if not owner or not repo: exit(1)
UrlInvalid ==
    /\ pc = "s_start"
    /\ LET info == extract_repo_info(repo_url) IN
        /\ ~info.found \/ info.owner = <<>> \/ info.repo = <<>>
        /\ repo_info' = info
    /\ Exit1
    /\ UNCHANGED <<repo_url, public_key, secrets, created, success_count,
                   calls, printed>>
    /\ UNCHANGED notSecrets

UrlResolved ==
    /\ pc = "s_start"
    /\ LET info == extract_repo_info(repo_url) IN
        /\ info.found /\ info.owner # <<>> /\ info.repo # <<>>
        /\ repo_info' = info
    /\ pc' = "s_verify"
    /\ UNCHANGED <<repo_url, public_key, secrets, created, success_count,
                   calls, printed, exit_code>>
    /\ UNCHANGED notSecrets

\* verify_repo_access returns response.status_code == 200
AccessVerified ==
    /\ pc = "s_verify"
    /\ calls' = Append(calls, [op |-> "get_repo", code |-> 200])
    /\ pc' = "s_key"
    /\ UNCHANGED <<repo_url, repo_info, public_key, secrets, created,
                   success_count, printed, exit_code>>
    /\ UNCHANGED notSecrets

\* variant: the result of verify_repo_access is ignored
AccessDeniedProceeds ==
    /\ pc = "s_verify"
    /\ \E code \in {0, 401, 404} :
           calls' = Append(calls, [op |-> "get_repo", code |-> code])
    /\ pc' = "s_key"
    /\ UNCHANGED <<repo_url, repo_info, public_key, secrets, created,
                   success_count, printed, exit_code>>
    /\ UNCHANGED notSecrets

\* any other status, or RequestException (code 0): exit 1
AccessDenied ==
    /\ pc = "s_verify"
    /\ \E code \in {0, 401, 404} :
           calls' = Append(calls, [op |-> "get_repo", code |-> code])
    /\ Exit1
    /\ UNCHANGED <<repo_url, repo_info, public_key, secrets, created,
                   success_count, printed>>
    /\ UNCHANGED notSecrets

\* get_public_key returns response.json(); the key in it may be unusable
PublicKeyFetched ==
    /\ pc = "s_key"
    /\ calls' = Append(calls, [op |-> "get_public_key", code |-> 200])
    /\ public_key' \in {"usable", "malformed"}
    /\ pc' = "s_prompt"
    /\ UNCHANGED <<repo_url, repo_info, secrets, created, success_count,
                   printed, exit_code>>
    /\ UNCHANGED notSecrets

\* raise_for_status or the request raises: get_public_key returns None, exit 1
PublicKeyFails ==
    /\ pc = "s_key"
    /\ \E code \in {0, 403, 404} :
           calls' = Append(calls, [op |-> "get_public_key", code |-> code])
    /\ Exit1
    /\ UNCHANGED <<repo_url, repo_info, public_key, secrets, created,
                   success_count, printed>>
    /\ UNCHANGED notSecrets

\* secrets = get_secret_values(); some value is empty: exit 1
SecretsRejected ==
    /\ pc = "s_prompt"
    /\ \E typed \in [1..Len(SecretNames) -> Typed] :
        /\ secrets' = get_secret_values(typed)
        /\ empty_secrets(secrets') # <<>>
    /\ Exit1
    /\ UNCHANGED <<repo_url, repo_info, public_key, created, success_count,
                   calls, printed>>
    /\ UNCHANGED notSecrets

\* all values non-empty: success_count = 0 and the loop starts
SecretsAccepted ==
    /\ pc = "s_prompt"
    /\ \E typed \in [1..Len(SecretNames) -> Typed] :
        /\ secrets' = get_secret_values(typed)
        /\ empty_secrets(secrets') = <<>>
    /\ success_count' = 0
    /\ pc' = "s_upload"
    /\ UNCHANGED <<repo_url, repo_info, public_key, created, calls, printed,
                   exit_code>>
    /\ UNCHANGED notSecrets

\* the secret the loop "for secret_name, secret_value in secrets.items()" is at
NextSecret == Len(created) + 1
InLoop == pc = "s_upload" /\ NextSecret <= Len(SecretNames)

\* create_secret: encrypt_secret returned None, so return False before the PUT
CreateSecretNotSealed ==
    /\ InLoop
    /\ ~encrypt_secret(public_key, secrets[NextSecret])
    /\ created' = Append(created, [name |-> SecretNames[NextSecret],
                                   sealed |-> FALSE, code |-> 0, ok |-> FALSE])
    /\ UNCHANGED <<repo_url, repo_info, public_key, secrets, success_count,
                   calls, printed, pc, exit_code>>
    /\ UNCHANGED notSecrets

\* create_secret: the PUT answers; True for 201/204, False otherwise.
\* Code 0 stands for requests.RequestException (no response).
PutCodes == {201, 204, 422, 0}
CreateSecretPut ==
    /\ InLoop
    /\ encrypt_secret(public_key, secrets[NextSecret])
    /\ \E code \in PutCodes :
        /\ calls' = Append(calls, [op |-> "put_secret",
                                   name |-> SecretNames[NextSecret],
                                   code |-> code])
        /\ created' = Append(created, [name |-> SecretNames[NextSecret],
                                       sealed |-> TRUE, code |-> code,
                                       ok |-> PutSucceeded(code)])
        /\ success_count' = IF PutSucceeded(code) THEN success_count + 1
                            ELSE success_count
    /\ UNCHANGED <<repo_url, repo_info, public_key, secrets, printed, pc,
                   exit_code>>
    /\ UNCHANGED notSecrets

\* if success_count == len(secrets): main returns, the process exits 0
AllSecretsCreated ==
    /\ pc = "s_upload" /\ NextSecret > Len(SecretNames)
    /\ success_count = Len(secrets)
    /\ pc' = "s_done"
    /\ exit_code' = 0
    /\ printed' = Append(printed, [kind |-> "ALL", count |-> success_count,
                                   total |-> Len(secrets)])
    /\ UNCHANGED <<repo_url, repo_info, public_key, secrets, created,
                   success_count, calls>>
    /\ UNCHANGED notSecrets

\* else: "Only k/n secrets were created successfully", sys.exit(1)
SomeSecretsFailed ==
    /\ pc = "s_upload" /\ NextSecret > Len(SecretNames)
    /\ success_count # Len(secrets)
    /\ Exit1
    /\ printed' = Append(printed, [kind |-> "ONLY", count |-> success_count,
                                   total |-> Len(secrets)])
    /\ UNCHANGED <<repo_url, repo_info, public_key, secrets, created,
                   success_count, calls>>
    /\ UNCHANGED notSecrets

(***************************************************************************)
(* fetch_repos.py: get_all_repositories(), save_to_file(), main()          *)
(***************************************************************************)
MaxPages == 2
PerPage == 100
PageLengths == {1, 2}

\* the two fields of a project record the lister reads; "" stands for a
\* field that is absent (repo.get(..., '')), null or empty
ProjectRecords ==
    { [ssh_url_to_repo |-> "git@host:g/a.git", path_with_namespace |-> "g/a"],
      [ssh_url_to_repo |-> "git@host:g/b.git", path_with_namespace |-> "g/b"],
      [ssh_url_to_repo |-> "",                 path_with_namespace |-> "g/c"],
      [ssh_url_to_repo |-> "git@host:g/d.git", path_with_namespace |-> ""] }

\* the non-empty lists response.json() can be
Pages == UNION {[1..n -> ProjectRecords] : n \in PageLengths}

\* variant: every record is appended
CollectedAlways(repo) == TRUE

\* if ssh_url and path_with_namespace:
Collected(repo) ==
    /\ repo.ssh_url_to_repo # ""
    /\ repo.path_with_namespace # ""

\* for repo in current_page_repos: ... repos.append((ssh_url, path_with_namespace))
RECURSIVE PairsOf(_)
PairsOf(current_page_repos) ==
    IF current_page_repos = <<>> THEN <<>>
    ELSE LET repo == Head(current_page_repos) IN
         (IF Collected(repo)
              THEN << <<repo.ssh_url_to_repo, repo.path_with_namespace>> >>
              ELSE <<>>)
         \o PairsOf(Tail(current_page_repos))

\* requests.get(f"...projects?membership=true&page={page}&per_page={per_page}")
ListCall(code, body) ==
    [op |-> "list_projects", page |-> page, per_page |-> PerPage,
     code |-> code, body |-> body]

\* status 200 and a non-empty page: collect it, page += 1, loop
FetchPage ==
    /\ pc = "l_fetch"
    /\ page <= MaxPages
    /\ \E current_page_repos \in Pages :
        /\ calls' = Append(calls, ListCall(200, current_page_repos))
        /\ repos' = repos \o PairsOf(current_page_repos)
    /\ page' = page + 1
    /\ UNCHANGED <<pc, printed, exit_code>>
    /\ UNCHANGED notLister

\* if not current_page_repos: break; return repos
FetchEmpty ==
    /\ pc = "l_fetch"
    /\ calls' = Append(calls, ListCall(200, <<>>))
    /\ pc' = "l_returned"
    /\ UNCHANGED <<page, repos, printed, exit_code>>
    /\ UNCHANGED notLister

\* if response.status_code != 200: break; return repos
FetchError ==
    /\ pc = "l_fetch"
    /\ \E code \in {401, 500} :
           calls' = Append(calls, ListCall(code, <<>>))
    /\ pc' = "l_returned"
    /\ UNCHANGED <<page, repos, printed, exit_code>>
    /\ UNCHANGED notLister

\* requests.get raises (code 0): nothing catches it, the script dies
FetchRaises ==
    /\ pc = "l_fetch"
    /\ calls' = Append(calls, ListCall(0, <<>>))
    /\ pc' = "l_done"
    /\ exit_code' = 1
    /\ UNCHANGED <<page, repos, printed>>
    /\ UNCHANGED notLister

\* if not repositories: print("No repositories found or error occurred.")
NoRepositories ==
    /\ pc = "l_returned"
    /\ repos = <<>>
    /\ printed' = Append(printed, [kind |-> "NONE_FOUND", lines |-> <<>>])
    /\ pc' = "l_done"
    /\ exit_code' = 0
    /\ UNCHANGED <<page, repos, calls>>
    /\ UNCHANGED notLister

\* save_to_file: one line f"{repo[0]} {repo[1]}\n" per pair
FileLines(repositories) ==
    [i \in DOMAIN repositories |->
        <<repositories[i][1], " ", repositories[i][2], "\n">>]

SaveToFile ==
    /\ pc = "l_returned"
    /\ repos # <<>>
    /\ printed' = Append(printed, [kind |-> "SAVED", lines |-> FileLines(repos)])
    /\ pc' = "l_done"
    /\ exit_code' = 0
    /\ UNCHANGED <<page, repos, calls>>
    /\ UNCHANGED notLister

(***************************************************************************)
(* Specifications                                                          *)
(***************************************************************************)
InitCommon ==
    /\ structure = [items |-> <<>>, structure |-> <<>>]
    /\ pc = "start"
    /\ frames = <<>>
    /\ calls = <<>>
    /\ printed = <<>>
    /\ status = <<>>
    /\ group_id = <<>>
    /\ lastSearch = <<>>
    /\ exit_code = None
    /\ repo_info = NoRepoInfo
    /\ public_key = "unset"
    /\ secrets = <<>>
    /\ created = <<>>
    /\ success_count = 0
    /\ page = 1
    /\ repos = <<>>

\* a run of gitlab.py on a readable file
Init ==
    /\ content \in WalkTexts
    /\ dry_run \in BOOLEAN
    /\ parent_group_id \in ConfiguredParents
    /\ repo_url = <<>>
    /\ InitCommon

Next ==
    \/ ReadAndParse
    \/ NoStructure
    \/ HasStructure
    \/ ConstructDryRun
    \/ ConstructAuthOk
    \/ ConstructAuthFails
    \/ DryRunProject
    \/ DryRunGroup
    \/ CreateProjectOk
    \/ CreateProjectHTTPError
    \/ CreateProjectRaises
    \/ CreateGroupOk
    \/ CreateGroupTaken
    \/ CreateGroupTakenSearchFails
    \/ CreateGroupHTTPError
    \/ CreateGroupRaises
    \/ ReturnFromChildren
    \/ Completed

Spec == Init /\ [][Next]_vars

\* the parser alone, on texts that also hold ignored and oddly indented lines
InitParser ==
    /\ content \in ParserTexts
    /\ dry_run = TRUE
    /\ parent_group_id = None
    /\ repo_url = <<>>
    /\ InitCommon

NextParser ==
    \/ ReadAndParse
    \/ NoStructure
    \/ HasStructure

SpecParser == InitParser /\ [][NextParser]_vars

\* extract_repo_info alone, on URLs of the two documented shapes and others
InitCommonSecrets ==
    /\ content = <<>>
    /\ dry_run = FALSE
    /\ parent_group_id = None
    /\ structure = [items |-> <<>>, structure |-> <<>>]
    /\ pc = "s_start"
    /\ frames = <<>>
    /\ calls = <<>>
    /\ printed = <<>>
    /\ status = <<>>
    /\ group_id = <<>>
    /\ lastSearch = <<>>
    /\ exit_code = None
    /\ repo_info = NoRepoInfo
    /\ public_key = "unset"
    /\ secrets = <<>>
    /\ created = <<>>
    /\ success_count = 0
    /\ page = 1
    /\ repos = <<>>

InitRepoInfo ==
    /\ repo_url \in RepoUrls
    /\ InitCommonSecrets

NextRepoInfo ==
    \/ UrlInvalid
    \/ UrlResolved

SpecRepoInfo == InitRepoInfo /\ [][NextRepoInfo]_vars

\* a run of set-secrets.py with two arguments
InitSecrets ==
    /\ repo_url \in SecretsUrls
    /\ InitCommonSecrets

NextSecrets ==
    \/ BadArgumentCount
    \/ UrlInvalid
    \/ UrlResolved
    \/ AccessVerified
    \/ AccessDenied
    \/ PublicKeyFetched
    \/ PublicKeyFails
    \/ SecretsRejected
    \/ SecretsAccepted
    \/ CreateSecretNotSealed
    \/ CreateSecretPut
    \/ AllSecretsCreated
    \/ SomeSecretsFailed

SpecSecrets == InitSecrets /\ [][NextSecrets]_vars

\* a run of fetch_repos.py: repos = [], page = 1
InitLister ==
    /\ content = <<>>
    /\ dry_run = FALSE
    /\ parent_group_id = None
    /\ structure = [items |-> <<>>, structure |-> <<>>]
    /\ frames = <<>>
    /\ status = <<>>
    /\ group_id = <<>>
    /\ lastSearch = <<>>
    /\ repo_url = <<>>
    /\ repo_info = NoRepoInfo
    /\ public_key = "unset"
    /\ secrets = <<>>
    /\ created = <<>>
    /\ success_count = 0
    /\ pc = "l_fetch"
    /\ calls = <<>>
    /\ printed = <<>>
    /\ exit_code = None
    /\ page = 1
    /\ repos = <<>>

NextLister ==
    \/ FetchPage
    \/ FetchEmpty
    \/ FetchError
    \/ FetchRaises
    \/ NoRepositories
    \/ SaveToFile

SpecLister == InitLister /\ [][NextLister]_vars

(***************************************************************************)
(* The parsed tree, as the properties below read it                        *)
(***************************************************************************)
Nodes == 1..Len(Items)
Range(f) == {f[i] : i \in DOMAIN f}
Roots == Range(structure.structure)
HasParent(n) == \E p \in Nodes : n \in Range(Items[p].children)
ParentOf(n) == CHOOSE p \in Nodes : n \in Range(Items[p].children)

RECURSIVE Ancestors(_)
Ancestors(n) ==
    IF HasParent(n) THEN {ParentOf(n)} \cup Ancestors(ParentOf(n)) ELSE {}

Descendants(n) == {d \in Nodes : n \in Ancestors(d)}

\* the list a node stands in, and the nodes after it in that list
SiblingList(n) ==
    IF HasParent(n) THEN Items[ParentOf(n)].children ELSE structure.structure
FollowingSiblings(n) ==
    LET l == SiblingList(n)
        k == CHOOSE i \in DOMAIN l : l[i] = n
    IN {l[i] : i \in (k + 1)..Len(l)}

IsCreate(c) == c.op \in {"create_group", "create_project"}
\* positions in the log of the create calls issued for node n
CreateCallsOf(n) == {i \in DOMAIN calls : IsCreate(calls[i]) /\ calls[i].node = n}
\* positions of the calls that can yield the id of group n
ResolvingCallsOf(n) ==
    {i \in DOMAIN calls :
        /\ calls[i].op \in {"create_group", "search_groups"}
        /\ calls[i].node = n}

(***************************************************************************)
(* Properties of the hierarchy walk                                        *)
(***************************************************************************)
\* C1: in a run that is not a dry run, every create call of a non-root node
\* comes after a create or lookup call of its parent group that yielded an
\* id and carries exactly that id; the create call of a root node carries
\* the configured parent group id; no node gets more than one create call.
C1_ParentResolvedBeforeChild ==
    ~dry_run =>
        \A i \in DOMAIN calls :
            IsCreate(calls[i]) =>
                LET n == calls[i].node IN
                /\ CreateCallsOf(n) = {i}
                /\ calls[i].op = IF IsRepo(n) THEN "create_project"
                                 ELSE "create_group"
                /\ IF n \in Roots
                   THEN calls[i].parent_id = parent_group_id
                   ELSE /\ status[ParentOf(n)] \in {"created", "reused"}
                        /\ group_id[ParentOf(n)] \in Ids
                        /\ calls[i].parent_id = group_id[ParentOf(n)]
                        /\ \E j \in ResolvingCallsOf(ParentOf(n)) : j < i
                        /\ status[ParentOf(n)] = "reused" =>
                               \E j \in ResolvingCallsOf(ParentOf(n)) :
                                   j < i /\ calls[j].op = "search_groups"

\* a completed run in which a grandchild was created below a created group
\* and a child below a reused group
C1_Witness ==
    /\ ~dry_run /\ pc = "done" /\ exit_code = 0
    /\ \E n \in Nodes :
        /\ HasParent(n) /\ HasParent(ParentOf(n))
        /\ CreateCallsOf(n) # {}
        /\ status[ParentOf(n)] = "reused"
        /\ status[ParentOf(ParentOf(n))] = "created"
        /\ group_id[ParentOf(n)] # group_id[ParentOf(ParentOf(n))]

\* C2: when a group's create call is answered 'already taken' and the lookup
\* finds no group with the same path and parent, no create call is ever
\* issued for a descendant of the node, and the next call of the walk, if
\* the node has a following sibling, is that sibling's create call; a run
\* that completes has made it.
C2_UnresolvedConflictSkipsSubtree ==
    \A i \in DOMAIN calls :
        (calls[i].op = "search_groups" /\ status[calls[i].node] = "taken") =>
            LET n == calls[i].node IN
            /\ group_id[n] = None
            /\ \A d \in Descendants(n) :
                   CreateCallsOf(d) = {} /\ status[d] = "pending"
            /\ \A s \in FollowingSiblings(n) :
                /\ (pc = "done" /\ exit_code = 0) => CreateCallsOf(s) # {}
                /\ (s = SiblingList(n)[1 + CHOOSE k \in DOMAIN SiblingList(n) :
                                              SiblingList(n)[k] = n]
                    /\ i < Len(calls)) =>
                       IsCreate(calls[i + 1]) /\ calls[i + 1].node = s

\* a completed run with an unresolved conflict on a group that has children
\* and a following sibling, the sibling created
C2_Witness ==
    /\ pc = "done" /\ exit_code = 0
    /\ \E n \in Nodes :
        /\ status[n] = "taken"
        /\ Descendants(n) # {}
        /\ \E s \in FollowingSiblings(n) : status[s] = "created"

\* C3: when a group's create call is answered 'already taken' and the lookup
\* returns a group whose path is the node's slug and whose parent id is the
\* parent id of the create call, _create_group returns that group's id (the
\* first such group's) and create_structure enters the node's children with
\* it: their create calls carry the looked-up id.
LookupMatches(g, n, parent_id) ==
    g.path = Slug(Items[n].name) /\ g.parent_id = parent_id
C3_ResolvedConflictRecurses ==
    /\ \A k \in DOMAIN lastSearch :
        LET n == lastSearch[k].node
            resp == lastSearch[k].resp
            used == calls[Min(ResolvingCallsOf(n))].parent_id
            hits == {h \in DOMAIN resp : LookupMatches(resp[h], n, used)}
        IN hits # {} =>
            /\ group_id[n] = resp[Min(hits)].id
            /\ status[n] = "reused"
            /\ calls[Len(calls)].op = "search_groups" =>
                   /\ pc = "walk"
                   /\ Top = [items |-> Items[n].children, idx |-> 1,
                             parent_id |-> resp[Min(hits)].id]
    /\ \A n \in Nodes :
        status[n] = "reused" =>
            /\ \A c \in Range(Items[n].children) :
                   \A i \in CreateCallsOf(c) :
                       calls[i].parent_id = group_id[n]
            /\ (pc = "done" /\ exit_code = 0) =>
                   \A c \in Range(Items[n].children) : CreateCallsOf(c) # {}

\* the lookup returned two groups of the right path, only the second under
\* the right parent, and the walk has entered the node's children with the
\* second group's id
C3_Witness ==
    \E k \in DOMAIN lastSearch :
        LET n == lastSearch[k].node
            resp == lastSearch[k].resp
        IN /\ status[n] = "reused"
           /\ Len(resp) = 2
           /\ resp[1].path = Slug(Items[n].name)
           /\ resp[1].id # group_id[n]
           /\ resp[2].id = group_id[n]
           /\ pc = "walk"
           /\ Top.items = Items[n].children
           /\ Top.parent_id = group_id[n]

\* C6: in dry-run mode no network call is issued, from the construction of
\* the creator to the end of the walk.
C6_DryRunNoNetwork ==
    dry_run => calls = <<>>

\* a dry run that ended after printing a group and a project
C6_Witness ==
    /\ dry_run /\ pc = "done" /\ exit_code = 0
    /\ \E i, j \in DOMAIN printed :
           printed[i].kind = "GROUP" /\ printed[j].kind = "PROJECT"

\* C4: a dry run that ends has printed every node of the parsed tree, groups
\* and projects at every depth, each exactly once and in source order.
C4_DryRunPrintsEveryNode ==
    (dry_run /\ pc = "done" /\ exit_code = 0) =>
        /\ Len(printed) = Len(Items)
        /\ \A n \in Nodes :
            /\ printed[n].node = n
            /\ printed[n].kind = IF IsRepo(n) THEN "PROJECT" ELSE "GROUP"

\* C5: in a run that is not a dry run, a node whose create call failed in
\* any way got exactly one create call, the run went on to create the
\* node's following siblings, and it ended with exit code 0.
FailedStatus == HTTPErrors \cup Uncaught \cup {"search_failed"}
C5_FailureStaysLocal ==
    ~dry_run =>
        \A n \in Nodes :
            status[n] \in FailedStatus =>
                /\ Cardinality(CreateCallsOf(n)) = 1
                /\ pc = "done" =>
                    /\ exit_code = 0
                    /\ \A s \in FollowingSiblings(n) : CreateCallsOf(s) # {}

(***************************************************************************)
(* Properties of the parser                                                *)
(***************************************************************************)
\* the ascending sequence of the members of a set of indexes below n
Ascending(S, n) == SelectSeq([i \in 1..n |-> i], LAMBDA i : i \in S)

\* the lines of the input text as written, and those of the list shape
RawLines == Split(content)
Qualifying == Ascending({i \in DOMAIN RawLines : LineMatches(RawLines[i])},
                        Len(RawLines))
\* floor(leading-whitespace length / 2) of the k-th qualifying line
DepthOfLine(k) == LeadingSpaces(RawLines[Qualifying[k]]) \div 2
\* the nearest preceding qualifying line of strictly smaller depth, 0 if none
NearestShallower(k) ==
    LET above == {j \in 1..(k - 1) : DepthOfLine(j) < DepthOfLine(k)}
    IN IF above = {} THEN 0 ELSE CHOOSE j \in above : \A i \in above : i <= j

\* C7: parse gives every qualifying line of the text a node of depth
\* floor(leading whitespace / 2), the last child so far of the nearest
\* preceding qualifying line of strictly smaller depth, or a root when there
\* is none; children and roots are in line order.
C7_ParseBuildsIndentTree ==
    pc # "start" =>
        /\ Len(Items) = Len(Qualifying)
        /\ \A k \in DOMAIN Qualifying :
            /\ k \in Nodes
            /\ Items[k].level = DepthOfLine(k)
            /\ Items[k].children =
                   Ascending({c \in DOMAIN Qualifying : NearestShallower(c) = k},
                             Len(Qualifying))
        /\ structure.structure =
               Ascending({c \in DOMAIN Qualifying : NearestShallower(c) = 0},
                         Len(Qualifying))

\* a line the parser is to ignore: blank, beginning with three backticks, or
\* without the "- " marker
IgnoredLine(line) ==
    \/ Strip(line) = <<>>
    \/ StartsWith(line, Fence)
    \/ ~LineMatches(line)
WithoutIgnored(text) ==
    JoinLines(SelectSeq(Split(text), LAMBDA l : ~IgnoredLine(l)))

\* C8: parse returns for a text the tree it returns for the text with its
\* ignored lines removed.
C8_IgnoredLinesDoNotMatter ==
    pc # "start" => structure = Parse(WithoutIgnored(content))

(***************************************************************************)
(* Properties of the secrets provisioner                                   *)
(***************************************************************************)
\* C9: extract_repo_info returns exactly <owner> and <repo> for
\* git@github.com:<owner>/<repo>[.git] and https://github.com/<owner>/<repo>[.git],
\* and nothing for a URL of neither shape.
C9_OwnerAndRepoExtracted ==
    pc # "s_start" =>
        /\ \A p \in {SshPrefix, HttpsPrefix}, o \in Names, r \in Names,
              x \in {<<>>, DotGit} :
               repo_url = MakeUrl(p, o, r, x) =>
                   repo_info = [found |-> TRUE, owner |-> o, repo |-> r]
        /\ (\A p \in {SshPrefix, HttpsPrefix} : ~StartsWith(repo_url, p)) =>
               ~repo_info.found

\* the upload calls issued for a secret, and those answered 201 or 204
PutsOf(name) ==
    {i \in DOMAIN calls : calls[i].op = "put_secret" /\ calls[i].name = name}
PutsAccepted ==
    {i \in DOMAIN calls : calls[i].op = "put_secret" /\ calls[i].code \in {201, 204}}
\* the run went through the upload loop and ended
UploadPhaseOver == pc = "s_done" /\ printed # <<>>

\* the exit status and the report of a run that went through the upload loop
ExitReflectsUploads ==
    /\ exit_code = 0 <=> Cardinality(PutsAccepted) = Len(SecretNames)
    /\ exit_code # 0 =>
        /\ exit_code = 1
        /\ printed[Len(printed)] =
               [kind |-> "ONLY", count |-> Cardinality(PutsAccepted),
                total |-> Len(SecretNames)]

\* C10 as stated: once the upload phase is reached, the upload of each of the
\* four secrets is issued exactly once, whatever the earlier uploads
\* returned; exit 0 iff all four returned 201 or 204, else "k/4" and exit 1.
C10_EveryUploadIssuedOnce ==
    UploadPhaseOver =>
        /\ \A k \in DOMAIN SecretNames : Cardinality(PutsOf(SecretNames[k])) = 1
        /\ ExitReflectsUploads

\* C10 as amended: once the upload phase is reached, create_secret runs
\* exactly once for each of the four secrets, in order and whatever the
\* earlier ones returned; it issues the secret's upload call exactly once,
\* except that no upload call is issued for a secret whose value could not
\* be sealed; exit 0 iff all four uploads returned 201 or 204, else "k/4"
\* with k the number of uploads that returned 201 or 204, and exit 1.
C10_EverySecretHandledOnce ==
    /\ pc \in {"s_upload", "s_done"} =>
        /\ Len(created) <= Len(SecretNames)
        /\ \A k \in DOMAIN created :
            /\ created[k].name = SecretNames[k]
            /\ created[k].sealed = encrypt_secret(public_key, secrets[k])
            /\ Cardinality(PutsOf(SecretNames[k])) =
                   IF created[k].sealed THEN 1 ELSE 0
        /\ \A k \in DOMAIN SecretNames :
               k > Len(created) => PutsOf(SecretNames[k]) = {}
    /\ UploadPhaseOver =>
        /\ Len(created) = Len(SecretNames)
        /\ ExitReflectsUploads

\* three uploads answered 201 or 204 and one 422: "3/4" and exit 1
C10_Witness ==
    /\ UploadPhaseOver
    /\ exit_code = 1
    /\ Cardinality(PutsAccepted) = 3
    /\ \E i \in DOMAIN calls : calls[i].op = "put_secret" /\ calls[i].code = 422
    /\ printed[Len(printed)].count = 3

(***************************************************************************)
(* C11: the upload calls come last                                         *)
(***************************************************************************)
Resolved ==
    /\ repo_info.found
    /\ repo_info.owner # <<>>
    /\ repo_info.repo # <<>>

AccessGranted ==
    /\ Len(calls) >= 1
    /\ calls[1] = [op |-> "get_repo", code |-> 200]

KeyRetrieved ==
    /\ Len(calls) >= 2
    /\ calls[2] = [op |-> "get_public_key", code |-> 200]
    /\ public_key # "unset"

UploadCalls == {i \in DOMAIN calls : calls[i].op = "put_secret"}

AllEntered ==
    /\ secrets # <<>>
    /\ \A k \in DOMAIN secrets : secrets[k] # <<>>

\* C11: in every run of the Secrets Provisioner a secret upload call is
\* issued only after, in this order, the repository URL resolved to an
\* owner/repo pair, the access check returned 200, the public key and key
\* id were retrieved and all entered secret values were non-empty; a run
\* in which one of these steps failed ends with exit code 1 and has issued
\* no upload call.
C11_UploadsOnlyAfterPreflight ==
    /\ calls # <<>> => Resolved /\ calls[1].op = "get_repo"
    /\ Len(calls) >= 2 => AccessGranted /\ calls[2].op = "get_public_key"
    /\ secrets # <<>> => KeyRetrieved
    /\ \A i \in UploadCalls :
           /\ i >= 3
           /\ Resolved /\ AccessGranted /\ KeyRetrieved /\ AllEntered
    /\ (pc = "s_done"
          /\ ~(Resolved /\ AccessGranted /\ KeyRetrieved /\ AllEntered))
       => exit_code = 1 /\ UploadCalls = {}

C11_Witness ==
    /\ pc = "s_done"
    /\ UploadCalls # {}
    /\ Resolved /\ AccessGranted /\ KeyRetrieved /\ AllEntered

(***************************************************************************)
(* C12: what the lister requests and what it returns                       *)
(***************************************************************************)
\* the call ended the loop: a status other than 200, or an empty page
StopsListing(call) == call.code # 200 \/ call.body = <<>>

\* get_all_repositories has returned to main
ListingReturned == pc = "l_returned" \/ (pc = "l_done" /\ printed # <<>>)

\* all records of the pages received so far, in page and in-page order
RECURSIVE RecordsUpTo(_)
RecordsUpTo(n) ==
    IF n = 0 THEN <<>> ELSE RecordsUpTo(n - 1) \o calls[n].body

RecordsFetched == RecordsUpTo(Len(calls))

HasBothFields(r) == r.ssh_url_to_repo # "" /\ r.path_with_namespace # ""

PairOfRecord(r) == <<r.ssh_url_to_repo, r.path_with_namespace>>

PairsOfRecords(rs) == [i \in DOMAIN rs |-> PairOfRecord(rs[i])]

RequestsInOrder ==
    /\ \A i \in DOMAIN calls :
           /\ calls[i].op = "list_projects"
           /\ calls[i].page = i
           /\ calls[i].per_page = PerPage
    /\ \A i \in DOMAIN calls : i < Len(calls) => ~StopsListing(calls[i])
    /\ pc = "l_fetch" => \A i \in DOMAIN calls : ~StopsListing(calls[i])
    /\ pc # "l_fetch" => calls # <<>> /\ StopsListing(calls[Len(calls)])

\* C12 as stated: pages 1, 2, 3, ... are requested in order up to the first
\* empty or non-200 one, and the returned sequence holds one pair for every
\* record of every page fetched before the stop.
C12_OnePairPerRecord ==
    /\ RequestsInOrder
    /\ ListingReturned => repos = PairsOfRecords(RecordsFetched)

\* C12: pages 1, 2, 3, ... are requested in order up to the first empty or
\* non-200 one and none after it; the returned sequence is, in page order
\* and in-page order, one pair for every fetched record that carries both a
\* non-empty clone address and a non-empty namespace path - records before
\* an error are kept, a project returned twice appears twice.
C12_OnePairPerCompleteRecord ==
    /\ RequestsInOrder
    /\ repos = PairsOfRecords(SelectSeq(RecordsFetched, HasBothFields))

C12_Witness ==
    /\ ListingReturned
    /\ Len(calls) = 3
    /\ calls[3].code # 200
    /\ \E i, j \in DOMAIN repos : i < j /\ repos[i] = repos[j]
    /\ Len(repos) < Len(RecordsFetched)

====
